---- MODULE Spec2Model ----
(***************************************************************************)
(* testtoken.py: the Gemini API-key tester.                                *)
(*                                                                         *)
(* The script is a module top level of five statements: construct the      *)
(* client (line 9, outside the try), print the status line (line 12),      *)
(* call generate_content (lines 13-16), print the SUCCESS line from        *)
(* response.text (line 17) and, for an exception matching                  *)
(* "except Exception" raised by lines 12-17, print the ERROR line          *)
(* (lines 18-19).  Each invocation of the script is a process of its own;  *)
(* the model runs NumRuns of them interleaved statement by statement.      *)
(* The SDK (genai.Client, generate_content, the response's text property)  *)
(* is external: each call returns or raises, chosen nondeterministically.  *)
(***************************************************************************)
EXTENDS Naturals, Sequences, FiniteSets, TLC

\* Number of concurrent invocations of the script.
NumRuns == 2

Runs == 1..NumRuns

---------------------------------------------------------------------------
\* Python values the script handles

\* line 7: the credential literal (its value is opaque to the script; the
\* other members are the credentials a run may be given in its place)
API_KEY == "AIzaSy-literal"

Credentials == {API_KEY, ""}

\* line 12, line 17, line 19: the literals handed to print
STATUS_LINE == "Testing gemini-2.5-flash-lite..."

SUCCESS_LABEL == "SUCCESS:"

ERROR_LABEL == "ERROR:"

PyNone == [type |-> "NoneType", val |-> ""]

PyStr(s) == [type |-> "str", val |-> s]

PyExc(kind, msg) == [type |-> kind, val |-> msg]

NoException == PyExc("none", "")

\* Exceptions genai.Client(api_key=...) can raise (line 9)
ConstructErrors == {PyExc("ValueError", "Missing key inputs argument!")}

\* The error kinds of a failed request (lines 13-16), all subclasses of Exception
RequestErrors ==
    { PyExc("AuthenticationError", "401 UNAUTHENTICATED"),
      PyExc("ConnectError", "Connection refused"),
      PyExc("ModelNotFound", "404 NOT_FOUND"),
      PyExc("QuotaExhausted", "429 RESOURCE_EXHAUSTED") }

\* Raised in the blocked call by Ctrl-C: a BaseException that is no Exception
KeyboardInterrupt == PyExc("KeyboardInterrupt", "")

\* Exceptions the text property of a response can raise (line 17)
TextErrors == {PyExc("ValueError", "response has no valid part")}

\* What reading response.text yields: None when absent, or a string
TextPayloads == {PyNone, PyStr(""), PyStr("API key works!"), PyStr("API key works.")}

\* A response object: reading its text returns `text`, or raises `raises`
Response(text, raises) == [text |-> text, raises |-> raises]

NoResponse == [text |-> PyNone, raises |-> PyExc("unbound", "")]

Responses ==
    { Response(t, NoException) : t \in TextPayloads }
        \cup { Response(PyNone, x) : x \in TextErrors }

NoClient == [api_key |-> "", bound |-> FALSE]

\* line 9: genai.Client(api_key=API_KEY)
Client(api_key) == [api_key |-> api_key, bound |-> TRUE]

\* What the generate_content call of a run produced
NoResult == [outcome |-> "pending", response |-> NoResponse, exc |-> NoException]

Returned(resp) == [outcome |-> "returned", response |-> resp, exc |-> NoException]

Raised(x) == [outcome |-> "raised", response |-> NoResponse, exc |-> x]

---------------------------------------------------------------------------
\* Python built-ins the script uses

\* str(v) with None taken for a string: its (empty) value is written
Str_NoneAsEmpty(v) == v.val

\* str(v): None is written "None", a string is itself, an exception is its message
Str(v) ==
    IF v.type = "NoneType" THEN "None" ELSE v.val

\* print(label, v): the arguments' str() joined by one space, one line of output
print2(label, v) == label \o " " \o Str(v)

\* line 18 narrowed to "except APIError": the SDK's HTTP errors only
IsException_ApiErrorsOnly(x) ==
    x.type \in {"AuthenticationError", "ModelNotFound", "QuotaExhausted"}

\* line 18: does "except Exception" match x
IsException(x) ==
    x.type \notin {"KeyboardInterrupt", "SystemExit", "GeneratorExit", "none"}

---------------------------------------------------------------------------
VARIABLES
    pc,             \* each run's next statement
    credential,     \* each run's credential string (API_KEY in the source)
    client,         \* the variable client (line 9)
    response,       \* the variable response (line 13)
    e,              \* the variable e bound by the except clause (line 18)
    stdout,         \* the lines each run has printed
    uncaught,       \* the exception that propagated past the top level, if any
    constructions,  \* calls of genai.Client made by each run
    requests,       \* generate_content calls issued by each run
    result,         \* what each run's generate_content call produced
    steps           \* the statements each run has executed, in order

vars ==
    << pc, credential, client, response, e, stdout, uncaught,
       constructions, requests, result, steps >>

Init ==
    /\ pc = [r \in Runs |-> "construct"]
    /\ credential \in [Runs -> Credentials]
    /\ client = [r \in Runs |-> NoClient]
    /\ response = [r \in Runs |-> NoResponse]
    /\ e = [r \in Runs |-> NoException]
    /\ stdout = [r \in Runs |-> << >>]
    /\ uncaught = [r \in Runs |-> NoException]
    /\ constructions = [r \in Runs |-> 0]
    /\ requests = [r \in Runs |-> 0]
    /\ result = [r \in Runs |-> NoResult]
    /\ steps = [r \in Runs |-> << >>]

\* The process has ended
Done(r) == pc[r] = "done"

\* The interpreter's exit status of an ended run: 0 unless an exception propagated
ExitStatus(r) ==
    IF uncaught[r] = NoException THEN 0
    ELSE IF uncaught[r].type = "KeyboardInterrupt" THEN 130 ELSE 1

\* An exception x raised inside the try block (lines 11-17): the except clause
\* takes it when it matches, otherwise it propagates and the process ends
RaiseInTry(r, x) ==
    IF IsException(x)
    THEN /\ pc' = [pc EXCEPT ![r] = "except"]
         /\ e' = [e EXCEPT ![r] = x]
         /\ UNCHANGED uncaught
    ELSE /\ pc' = [pc EXCEPT ![r] = "done"]
         /\ uncaught' = [uncaught EXCEPT ![r] = x]
         /\ UNCHANGED e

\* line 9 followed at once by the request: the status line of line 12 is left out
ConstructReturns_SkipsStatus(r) ==
    /\ pc[r] = "construct"
    /\ constructions' = [constructions EXCEPT ![r] = @ + 1]
    /\ client' = [client EXCEPT ![r] = [api_key |-> credential[r], bound |-> TRUE]]
    /\ steps' = [steps EXCEPT ![r] = Append(@, "construct")]
    /\ pc' = [pc EXCEPT ![r] = "generate_content"]
    /\ UNCHANGED << credential, response, e, stdout, uncaught, requests, result >>

\* line 9, the constructor returns
ConstructReturns(r) ==
    /\ pc[r] = "construct"
    /\ constructions' = [constructions EXCEPT ![r] = @ + 1]
    /\ client' = [client EXCEPT ![r] = Client(credential[r])]
    /\ steps' = [steps EXCEPT ![r] = Append(@, "construct")]
    /\ pc' = [pc EXCEPT ![r] = "print_status"]
    /\ UNCHANGED << credential, response, e, stdout, uncaught, requests, result >>

\* line 9, the constructor raises: no try encloses it, the exception propagates
ConstructRaises(r) ==
    /\ pc[r] = "construct"
    /\ \E x \in ConstructErrors :
          uncaught' = [uncaught EXCEPT ![r] = x]
    /\ constructions' = [constructions EXCEPT ![r] = @ + 1]
    /\ steps' = [steps EXCEPT ![r] = Append(@, "construct")]
    /\ pc' = [pc EXCEPT ![r] = "done"]
    /\ UNCHANGED << credential, client, response, e, stdout, requests, result >>

\* line 12 preceded by a local check that rejects an empty credential
PrintStatus_ValidatesKey(r) ==
    /\ pc[r] = "print_status"
    /\ stdout' = [stdout EXCEPT ![r] = Append(@, STATUS_LINE)]
    /\ steps' = [steps EXCEPT ![r] = Append(@, "print_status")]
    /\ IF credential[r] = ""
       THEN RaiseInTry(r, PyExc("ValueError", "empty API key"))
       ELSE pc' = [pc EXCEPT ![r] = "generate_content"] /\ UNCHANGED << e, uncaught >>
    /\ UNCHANGED << credential, client, response, constructions, requests, result >>

\* line 12
PrintStatus(r) ==
    /\ pc[r] = "print_status"
    /\ stdout' = [stdout EXCEPT ![r] = Append(@, STATUS_LINE)]
    /\ steps' = [steps EXCEPT ![r] = Append(@, "print_status")]
    /\ pc' = [pc EXCEPT ![r] = "generate_content"]
    /\ UNCHANGED << credential, client, response, e, uncaught,
                    constructions, requests, result >>

\* lines 13-16 with the response kept in a place all runs share
GenerateContentReturns_SharedResponse(r) ==
    /\ pc[r] = "generate_content"
    /\ \E resp \in Responses :
          /\ response' = [s \in Runs |-> resp]
          /\ result' = [result EXCEPT ![r] = Returned(resp)]
    /\ requests' = [requests EXCEPT ![r] = @ + 1]
    /\ steps' = [steps EXCEPT ![r] = Append(@, "generate_content")]
    /\ pc' = [pc EXCEPT ![r] = "print_success"]
    /\ UNCHANGED << credential, client, e, stdout, uncaught, constructions >>

\* lines 13-16, the request returns a response object
GenerateContentReturns(r) ==
    /\ pc[r] = "generate_content"
    /\ \E resp \in Responses :
          /\ response' = [response EXCEPT ![r] = resp]
          /\ result' = [result EXCEPT ![r] = Returned(resp)]
    /\ requests' = [requests EXCEPT ![r] = @ + 1]
    /\ steps' = [steps EXCEPT ![r] = Append(@, "generate_content")]
    /\ pc' = [pc EXCEPT ![r] = "print_success"]
    /\ UNCHANGED << credential, client, e, stdout, uncaught, constructions >>

\* lines 13-16, the request raises
GenerateContentRaises(r) ==
    /\ pc[r] = "generate_content"
    /\ \E x \in RequestErrors \cup {KeyboardInterrupt} :
          /\ result' = [result EXCEPT ![r] = Raised(x)]
          /\ RaiseInTry(r, x)
    /\ requests' = [requests EXCEPT ![r] = @ + 1]
    /\ steps' = [steps EXCEPT ![r] = Append(@, "generate_content")]
    /\ UNCHANGED << credential, client, response, stdout, constructions >>

\* line 17, response.text is read and the SUCCESS line printed; the script ends
PrintSuccess(r) ==
    /\ pc[r] = "print_success"
    /\ response[r].raises = NoException
    /\ stdout' = [stdout EXCEPT ![r] = Append(@, print2(SUCCESS_LABEL, response[r].text))]
    /\ steps' = [steps EXCEPT ![r] = Append(@, "print_success")]
    /\ pc' = [pc EXCEPT ![r] = "done"]
    /\ UNCHANGED << credential, client, response, e, uncaught,
                    constructions, requests, result >>

\* line 17 split in two prints: the label is out before response.text raises
ReadTextRaises_AfterLabel(r) ==
    /\ pc[r] = "print_success"
    /\ response[r].raises # NoException
    /\ stdout' = [stdout EXCEPT ![r] = Append(@, SUCCESS_LABEL)]
    /\ RaiseInTry(r, response[r].raises)
    /\ steps' = [steps EXCEPT ![r] = Append(@, "print_success")]
    /\ UNCHANGED << credential, client, response, constructions, requests, result >>

\* line 17, reading response.text raises before print is called
ReadTextRaises(r) ==
    /\ pc[r] = "print_success"
    /\ response[r].raises # NoException
    /\ RaiseInTry(r, response[r].raises)
    /\ steps' = [steps EXCEPT ![r] = Append(@, "print_success")]
    /\ UNCHANGED << credential, client, response, stdout,
                    constructions, requests, result >>

\* lines 18-19 followed by one more attempt of the request
ExceptHandler_Retries(r) ==
    /\ pc[r] = "except"
    /\ stdout' = [stdout EXCEPT ![r] = Append(@, print2(ERROR_LABEL, e[r]))]
    /\ steps' = [steps EXCEPT ![r] = Append(@, "except")]
    /\ pc' = [pc EXCEPT ![r] = IF requests[r] < 2 THEN "generate_content" ELSE "done"]
    /\ UNCHANGED << credential, client, response, e, uncaught,
                    constructions, requests, result >>

\* lines 18-19, the handler prints the ERROR line; the script ends
ExceptHandler(r) ==
    /\ pc[r] = "except"
    /\ stdout' = [stdout EXCEPT ![r] = Append(@, print2(ERROR_LABEL, e[r]))]
    /\ steps' = [steps EXCEPT ![r] = Append(@, "except")]
    /\ pc' = [pc EXCEPT ![r] = "done"]
    /\ UNCHANGED << credential, client, response, e, uncaught,
                    constructions, requests, result >>

Next ==
    \E r \in Runs :
        \/ ConstructReturns(r)
        \/ ConstructRaises(r)
        \/ PrintStatus(r)
        \/ GenerateContentReturns(r)
        \/ GenerateContentRaises(r)
        \/ PrintSuccess(r)
        \/ ReadTextRaises(r)
        \/ ExceptHandler(r)

Spec == Init /\ [][Next]_vars

---------------------------------------------------------------------------
\* Vocabulary of the properties

StartsWith(s, p) == Len(s) >= Len(p) /\ SubSeq(s, 1, Len(p)) = p

\* The text that follows "<label> " on a printed line
TextAfter(line, label) == SubSeq(line, Len(label) + 2, Len(line))

HasLine(r, label) == \E i \in 1..Len(stdout[r]) : StartsWith(stdout[r][i], label)

ConstructionRaised(r) == constructions[r] > 0 /\ ~client[r].bound

RequestReturned(r) == result[r].outcome = "returned"

RequestRaised(r) == result[r].outcome = "raised"

TextReadable(r) == RequestReturned(r) /\ result[r].response.raises = NoException

TextUnreadable(r) == RequestReturned(r) /\ result[r].response.raises # NoException

IsPrefix(s, t) == Len(s) <= Len(t) /\ SubSeq(t, 1, Len(s)) = s

\* The three complete statement sequences of the script
SuccessPath == << "construct", "print_status", "generate_content", "print_success" >>

RequestErrorPath == << "construct", "print_status", "generate_content", "except" >>

TextErrorPath ==
    << "construct", "print_status", "generate_content", "print_success", "except" >>

\* Everything that belongs to one run
RunState(r) ==
    << pc[r], credential[r], client[r], response[r], e[r], stdout[r], uncaught[r],
       constructions[r], requests[r], result[r], steps[r] >>

---------------------------------------------------------------------------
\* C1: every exception raised by client construction or by the request is
\* caught by the top-level handler: the run that ended after either step
\* raised has printed the ERROR line and no exception propagated.
C1_AllExceptionsCaught ==
    \A r \in Runs :
        (Done(r) /\ (ConstructionRaised(r) \/ RequestRaised(r)))
            => /\ uncaught[r] = NoException
               /\ HasLine(r, "ERROR:")

\* C2: every run ends with exit status 0 after printing, whether the request
\* returned or raised.
C2_AlwaysExitsZeroAfterPrinting ==
    \A r \in Runs :
        Done(r) => (ExitStatus(r) = 0 /\ stdout[r] # << >>)

\* C3: every run prints exactly two lines: the status line, then the SUCCESS
\* line with the response text when the request returned or the ERROR line
\* with the stringified exception when it raised.
C3_ExactlyTwoLines ==
    \A r \in Runs :
        Done(r) =>
            /\ Len(stdout[r]) = 2
            /\ stdout[r][1] = "Testing gemini-2.5-flash-lite..."
            /\ \/ RequestReturned(r) /\ StartsWith(stdout[r][2], "SUCCESS: ")
               \/ RequestRaised(r) /\ stdout[r][2] = "ERROR: " \o result[r].exc.val

\* C4 as stated: whenever the request returned a response object, the run
\* prints a SUCCESS line followed by non-empty text and exits 0, also when
\* the payload is absent or empty.
C4_SuccessNonEmptyForEveryResponse ==
    \A r \in Runs :
        (Done(r) /\ RequestReturned(r)) =>
            /\ Len(stdout[r]) = 2
            /\ StartsWith(stdout[r][2], "SUCCESS:")
            /\ TextAfter(stdout[r][2], "SUCCESS:") # ""
            /\ ExitStatus(r) = 0

\* C4 amended: whenever the request returned, the run exits 0 after two
\* lines; when the text was read without raising the second line is
\* "SUCCESS: " followed by the payload's str() ("None" for an absent payload,
\* the string itself otherwise), which is empty exactly for the empty
\* payload; when reading the text raised the second line is the ERROR line.
C4_SuccessPrintsStrOfPayload ==
    \A r \in Runs :
        (Done(r) /\ RequestReturned(r)) =>
            /\ ExitStatus(r) = 0
            /\ Len(stdout[r]) = 2
            /\ TextReadable(r) =>
                  /\ stdout[r][2] =
                        "SUCCESS: " \o (IF result[r].response.text = PyNone
                                        THEN "None"
                                        ELSE result[r].response.text.val)
                  /\ (TextAfter(stdout[r][2], "SUCCESS:") = "")
                        <=> (result[r].response.text = PyStr(""))
            /\ TextUnreadable(r) => StartsWith(stdout[r][2], "ERROR:")

C4_Witness ==
    \E r \in Runs :
        /\ Done(r)
        /\ TextReadable(r)
        /\ result[r].response.text = PyNone
        /\ stdout[r] = << "Testing gemini-2.5-flash-lite...", "SUCCESS: None" >>

\* C5: two runs whose requests failed with different error kinds executed the
\* same statements, printed the status line then an ERROR line, and ended
\* with the same exit status; they differ only in the description after the
\* label.
C5_UniformErrorHandling ==
    \A r, s \in Runs :
        ( /\ Done(r) /\ Done(s)
          /\ RequestRaised(r) /\ RequestRaised(s)
          /\ result[r].exc \in RequestErrors /\ result[s].exc \in RequestErrors
          /\ result[r].exc.type # result[s].exc.type )
        => /\ steps[r] = steps[s]
           /\ ExitStatus(r) = ExitStatus(s)
           /\ \A q \in {r, s} :
                 /\ Len(stdout[q]) = 2
                 /\ stdout[q][1] = "Testing gemini-2.5-flash-lite..."
                 /\ stdout[q][2] = "ERROR: " \o result[q].exc.val

C5_Witness ==
    \E r, s \in Runs :
        /\ Done(r) /\ Done(s)
        /\ result[r].exc.type = "AuthenticationError"
        /\ result[s].exc.type = "ConnectError"
        /\ HasLine(r, "ERROR:") /\ HasLine(s, "ERROR:")

\* C6 as stated: no credential is rejected before the network call, every
\* run reaches the request, and a failure outcome occurs only after the
\* request has been issued.
C6_EveryRunReachesRequest ==
    \A r \in Runs :
        /\ HasLine(r, "ERROR:") => requests[r] > 0
        /\ Done(r) => requests[r] > 0

\* C6 amended: the script makes no check of its own, so an ERROR line is
\* printed only after the request has been issued and a run whose client
\* construction returned cannot end without issuing the request; a run ends
\* before the request only when client construction raised, with the
\* exception uncaught and nothing printed.
C6_NoLocalRejection ==
    \A r \in Runs :
        /\ HasLine(r, "ERROR:") => requests[r] > 0
        /\ (Done(r) /\ client[r].bound) => requests[r] > 0
        /\ (Done(r) /\ requests[r] = 0) =>
              /\ ConstructionRaised(r)
              /\ uncaught[r] \in ConstructErrors
              /\ stdout[r] = << >>

C6_Witness ==
    \E r \in Runs :
        /\ credential[r] = ""
        /\ Done(r)
        /\ requests[r] = 1
        /\ HasLine(r, "ERROR:")

\* C7 as stated: one client construction at most, and exactly one request in
\* every run: no retry, no second request, no run that ends without one.
C7_ExactlyOneRequest ==
    \A r \in Runs :
        /\ constructions[r] <= 1
        /\ requests[r] <= 1
        /\ Done(r) => requests[r] = 1

\* C7 amended: one client construction at most and one request at most; a
\* run that ended issued exactly one request when its client construction
\* returned and none when it raised.
C7_AtMostOneRequest ==
    \A r \in Runs :
        /\ constructions[r] <= 1
        /\ requests[r] <= 1
        /\ (Done(r) /\ client[r].bound) => requests[r] = 1
        /\ (Done(r) /\ ConstructionRaised(r)) => requests[r] = 0

C7_Witness ==
    \E r \in Runs :
        /\ Done(r)
        /\ RequestRaised(r)
        /\ HasLine(r, "ERROR:")
        /\ constructions[r] = 1
        /\ requests[r] = 1

\* The output and exit status a run ends with, from the results of its own calls
C8_Expected(bound, res) ==
    IF ~bound THEN << << >>, 1 >>
    ELSE IF res.outcome = "raised"
    THEN IF res.exc.type = "KeyboardInterrupt"
         THEN << << "Testing gemini-2.5-flash-lite..." >>, 130 >>
         ELSE << << "Testing gemini-2.5-flash-lite...", "ERROR: " \o res.exc.val >>, 0 >>
    ELSE IF res.response.raises # NoException
    THEN << << "Testing gemini-2.5-flash-lite...",
               "ERROR: " \o res.response.raises.val >>, 0 >>
    ELSE << << "Testing gemini-2.5-flash-lite...",
               "SUCCESS: " \o (IF res.response.text = PyNone
                               THEN "None" ELSE res.response.text.val) >>, 0 >>

C8_OwnOutcome ==
    /\ \A r \in Runs :
          Done(r) => << stdout[r], ExitStatus(r) >> = C8_Expected(client[r].bound, result[r])
    /\ \A r, s \in Runs :
          (Done(r) /\ Done(s) /\ TextReadable(r) /\ TextReadable(s))
              => (HasLine(r, "SUCCESS:") /\ HasLine(s, "SUCCESS:"))

C8_Isolation ==
    \A r, s \in Runs :
        (r # s /\ RunState(r)' # RunState(r)) => RunState(s)' = RunState(s)

\* C8: concurrent runs share no state and do not interact: a step of one run
\* changes nothing of another, the output and exit status of a run that ended
\* are determined by the results of its own calls, and runs whose requests
\* returned readable texts all print SUCCESS, also when the texts differ.
C8_RunsIndependent == []C8_OwnOutcome /\ [][C8_Isolation]_vars

C8_Witness ==
    \E r, s \in Runs :
        /\ r # s
        /\ Done(r) /\ Done(s)
        /\ TextReadable(r) /\ TextReadable(s)
        /\ result[r].response.text # result[s].response.text
        /\ HasLine(r, "SUCCESS:") /\ HasLine(s, "SUCCESS:")

\* C9: one linear sequence with one branch point: the statements a run has
\* executed are a prefix of one of the script's paths (so none is repeated or
\* out of order), the client is constructed before the status line is
\* printed, the status line is printed before the request is issued, and a
\* result line is printed only after the request has returned or raised.
C9_LinearOrder ==
    \A r \in Runs :
        /\ \/ IsPrefix(steps[r], SuccessPath)
           \/ IsPrefix(steps[r], RequestErrorPath)
           \/ IsPrefix(steps[r], TextErrorPath)
        /\ stdout[r] # << >> =>
              (client[r].bound /\ stdout[r][1] = "Testing gemini-2.5-flash-lite...")
        /\ requests[r] > 0 => stdout[r] # << >>
        /\ (HasLine(r, "SUCCESS:") \/ HasLine(r, "ERROR:")) =>
              (requests[r] > 0 /\ result[r] # NoResult)

C9_Witness ==
    \E r \in Runs : Done(r) /\ steps[r] = TextErrorPath

\* C10: SUCCESS and ERROR exclude each other within a run: no run prints
\* both lines, the SUCCESS line is printed only when the request returned and
\* its text was read without raising, and when reading the text raised the
\* run ends with the ERROR line and no SUCCESS line.
C10_SuccessXorError ==
    \A r \in Runs :
        /\ ~(HasLine(r, "SUCCESS:") /\ HasLine(r, "ERROR:"))
        /\ HasLine(r, "SUCCESS:") => TextReadable(r)
        /\ (Done(r) /\ TextUnreadable(r)) =>
              (HasLine(r, "ERROR:") /\ ~HasLine(r, "SUCCESS:"))

C10_Witness ==
    \E r \in Runs :
        /\ Done(r)
        /\ TextUnreadable(r)
        /\ stdout[r][2] = "ERROR: response has no valid part"

====
